---- MODULE Spec2Model ----
(***************************************************************************)
(* A model of src/src/portfolio_optimizer.py: one PortfolioOptimizer       *)
(* instance, its cached return statistics, and the calls optimize,         *)
(* plot_efficient_frontier and portfolio_stats made on it.                 *)
(*                                                                         *)
(* Numbers.  Daily returns are integers in units of 2% (so the default     *)
(* risk_free_rate 0.02 is 1).  Every real the program computes is kept as  *)
(* an exact fraction num/den; den = 0 stands for NaN (pandas and numpy     *)
(* produce NaN exactly where the formula divides 0 by 0: a mean of no      *)
(* rows, a covariance of fewer than 2 rows, a normalisation by a zero      *)
(* sum).  The volatility sqrt(w'Cw) is kept by its square, and a Sharpe    *)
(* ratio by the pair (excess numerator, variance numerator) plus a kind    *)
(* finite / inf / -inf / nan.  Floating-point rounding is not modelled.    *)
(*                                                                         *)
(* Libraries.  yfinance.download and scipy.optimize.minimize are not part  *)
(* of the repository.  download is modelled by what the library returns    *)
(* (one column per distinct ticker, in alphabetical order; a Series for a  *)
(* single ticker); the market it reads is an input.  minimize is modelled  *)
(* as a deterministic solver whose exit status (and, when it does not      *)
(* converge, its last iterate) is an input fixed for the run, solverFate.  *)
(***************************************************************************)
EXTENDS Integers, Sequences, FiniteSets, TLC

\* ---------------------------------------------------------------- bounds
MaxAssets == 2
MaxRows == 4
GridRes == 2
DrawRes == 2
MaxPortfolios == 2
MaxCalls == 2

\* ------------------------------------------------------------- constants
TradingDays == 252

\* Python's None (a record, so that it compares with the records it stands in for).
None == [none |-> TRUE]

Universe == <<"AAPL", "GOOGL", "MSFT">>

Objectives == {"negative_sharpe", "portfolio_volatility"}

VARIABLES
    symbols,         \* self.symbols
    risk_free_rate,  \* self.risk_free_rate, in units of 2%
    returns,         \* self.returns: None or [columns, rows]
    mean_returns,    \* self.mean_returns: None or [num, den]
    cov_matrix,      \* self.cov_matrix: None or [num, den]
    solverFate,      \* the solver's exit status per objective (environment)
    solverOut,       \* opt_sharpe / opt_var of the latest optimize, or None
    results,         \* what the latest optimize returned, or None
    prevResults,     \* what the optimize before it returned, or None
    raised,          \* the exception the latest call ended with, or "none"
    lastStats,       \* what the latest direct portfolio_stats call returned
    via,             \* the public method that ran the latest optimize
    pc,              \* "idle", or "sampling" inside plot_efficient_frontier
    num_portfolios,  \* plot_efficient_frontier's argument
    sampled,         \* len(returns_list): loop iterations done
    sampleDraws,     \* the latest np.random.random(n) draw [values], or None
    sampleW,         \* the latest normalised weights, or None
    sampleStats,     \* portfolio_stats of sampleW, or None
    fetchCount,      \* how many times fetch_data ran
    calls            \* how many public calls were made

vars == <<symbols, risk_free_rate, returns, mean_returns, cov_matrix,
          solverFate, solverOut, results, prevResults, raised, lastStats,
          via, pc, num_portfolios, sampled, sampleDraws, sampleW, sampleStats,
          fetchCount, calls>>

\* ---------------------------------------------------------------- helpers
Range(s) == {s[i] : i \in DOMAIN s}

RECURSIVE SeqSum(_)
SeqSum(s) == IF s = <<>> THEN 0 ELSE s[1] + SeqSum(Tail(s))

RECURSIVE Pow(_, _)
Pow(b, e) == IF e = 0 THEN 1 ELSE b * Pow(b, e - 1)

\* a/b < c/d for a, c >= 0 and b, d > 0, by continued fractions: no product
\* is formed, so the comparison stays within TLC's 32-bit integers.
RECURSIVE FracLess(_, _, _, _)
FracLess(a, b, c, d) ==
    IF a \div b # c \div d THEN a \div b < c \div d
    ELSE IF c % d = 0 THEN FALSE
    ELSE IF a % b = 0 THEN TRUE
    ELSE FracLess(d, c % d, b, a % b)

\* ------------------------------------------------- the market (an input)
\* The daily return, in units of 2%, a price history of each kind makes at
\* step t (from row t to row t + 1).
ReturnPattern(kind, t) ==
    CASE kind = "flat" -> 0
      [] kind = "zig"  -> IF t % 2 = 1 THEN 2 ELSE -2
      [] kind = "zag"  -> IF t % 2 = 1 THEN -2 ELSE 2
      [] kind = "ramp" -> IF t % 3 = 0 THEN 0 ELSE 2
      [] kind = "late" -> IF t % 2 = 1 THEN 0 ELSE 2

BasePrice == Pow(25, MaxRows)

\* The adjusted close of a history of this kind on row t; 0 stands for a
\* missing quote (NaN): a "late" ticker has none on the first row.
RECURSIVE Price(_, _)
Price(kind, t) ==
    IF t = 1 THEN (IF kind = "late" THEN 0 ELSE BasePrice)
    ELSE IF t = 2 /\ kind = "late" THEN BasePrice
    ELSE (Price(kind, t - 1) * (50 + ReturnPattern(kind, t - 1))) \div 50

Markets ==
    { [t \in Range(Universe) |->
          CASE t = "AAPL" -> "zig" [] t = "GOOGL" -> "ramp" [] t = "MSFT" -> "flat"],
      [t \in Range(Universe) |->
          CASE t = "AAPL" -> "late" [] t = "GOOGL" -> "zig" [] t = "MSFT" -> "zag"],
      [t \in Range(Universe) |->
          CASE t = "AAPL" -> "flat" [] t = "GOOGL" -> "zig" [] t = "MSFT" -> "ramp"] }

\* ------------------------------------------------------------ fetch_data
\* The distinct tickers in alphabetical order: the column order of the frame
\* yfinance.download returns, whatever the order of the list it was given.
SortedUnique(syms) == SelectSeq(Universe, LAMBDA t : t \in Range(syms))

\* yf.download(self.symbols, ...)['Adj Close'] on a market with nRows rows (none
\* when the provider has no data for the dates): a Series (no column labels)
\* for a single ticker, else a frame.
Download(syms, market, nRows) ==
    LET cols == SortedUnique(syms) IN
    [ series  |-> Len(cols) = 1,
      columns |-> cols,
      rows    |-> [t \in 1..nRows |->
                     [c \in 1..Len(cols) |-> Price(market[cols[c]], t)]] ]

\* if isinstance(data, pd.Series): data = data.to_frame(self.symbols[0])
ToFrame(data, syms) ==
    IF data.series THEN [data EXCEPT !.series = FALSE, !.columns = <<syms[1]>>]
    ELSE data

\* data.pct_change(): row t against row t - 1; NaN on the first row and where
\* a quote is missing.  A cell is [nan, v], v in units of 2%.
PctChange(data) ==
    [data EXCEPT !.rows =
        [t \in 1..Len(data.rows) |->
            [c \in 1..Len(data.columns) |->
                IF t = 1 \/ data.rows[t][c] = 0 \/ data.rows[t - 1][c] = 0
                THEN [nan |-> TRUE, v |-> 0]
                ELSE [nan |-> FALSE,
                      v |-> ((data.rows[t][c] - data.rows[t - 1][c]) * 50)
                                \div data.rows[t - 1][c]]]]]

\* .dropna(): the rows with no NaN in any column, in order.
DropNa(frame) ==
    [ columns |-> frame.columns,
      rows    |-> LET kept == SelectSeq(frame.rows,
                                  LAMBDA r : \A c \in DOMAIN r : ~r[c].nan)
                  IN [t \in 1..Len(kept) |->
                        [c \in 1..Len(frame.columns) |-> kept[t][c].v]] ]

ColSum(rets, c) == SeqSum([t \in 1..Len(rets.rows) |-> rets.rows[t][c]])

ColProd(rets, c, d) ==
    SeqSum([t \in 1..Len(rets.rows) |-> rets.rows[t][c] * rets.rows[t][d]])

\* self.returns.mean() * 252: num[c] / den with den the number of rows (NaN,
\* den = 0, for a frame without rows).
Mean(rets) ==
    [ num |-> [c \in 1..Len(rets.columns) |-> TradingDays * ColSum(rets, c)],
      den |-> Len(rets.rows) ]

\* self.returns.cov() * 252: the sample covariance (N * sum(xy) - sum(x) *
\* sum(y)) / (N * (N - 1)); NaN (den = 0) for fewer than 2 rows.
Cov(rets) ==
    LET N == Len(rets.rows) IN
    [ num |-> [c \in 1..Len(rets.columns) |->
                 [d \in 1..Len(rets.columns) |->
                    TradingDays * (N * ColProd(rets, c, d)
                                     - ColSum(rets, c) * ColSum(rets, d))]],
      den |-> N * (N - 1) ]

\* fetch_data on what the download returned: the three fields it stores.
fetch_data(data) ==
    LET rets == DropNa(PctChange(ToFrame(data, symbols))) IN
    [ returns |-> rets, mean_returns |-> Mean(rets), cov_matrix |-> Cov(rets) ]


\* ------------------------------------------------------- portfolio_stats
\* A weight vector is [num, den]: weight i is num[i] / den (all NaN when
\* den = 0).
Weights(num, den) == [num |-> num, den |-> den]

Dot(a, b) == SeqSum([i \in 1..Len(a) |-> a[i] * b[i]])

\* weights.T @ cov @ weights, as a numerator over weights.den^2 * cov.den.
Quad(num, mat) ==
    SeqSum([i \in 1..Len(num) |->
               num[i] * SeqSum([j \in 1..Len(num) |-> mat[i][j] * num[j]])])

\* (portfolio_return - risk_free_rate) / portfolio_std, numpy's float
\* division: x / 0 is inf, -inf or (0 / 0) nan, and no exception.  num is the
\* excess return over den = weights.den * mean.den, var the variance numerator.
Sharpe(ret, var, rf) ==
    LET e == ret.num - rf * ret.den IN
    [ kind |-> IF ret.den = 0 \/ var.den = 0 \/ var.num < 0 THEN "nan"
               ELSE IF var.num = 0
                    THEN (IF e > 0 THEN "inf" ELSE IF e < 0 THEN "-inf" ELSE "nan")
               ELSE "finite",
      num  |-> IF ret.den = 0 \/ var.den = 0 THEN 0 ELSE e,
      var  |-> IF ret.den = 0 \/ var.den = 0 THEN 0 ELSE var.num ]

\* portfolio_stats(weights) on the instance's statistics: the tuple
\* (portfolio_return, portfolio_std, sharpe_ratio), with portfolio_std kept
\* by its square.  A weight vector of another length than the statistics
\* makes pandas raise ValueError.
portfolio_stats(w, mean, cov, rf) ==
    IF Len(w.num) # Len(mean.num) THEN [err |-> "ValueError"]
    ELSE
      LET nan == w.den = 0
          ret == IF nan \/ mean.den = 0 THEN [num |-> 0, den |-> 0]
                 ELSE [num |-> Dot(mean.num, w.num), den |-> w.den * mean.den]
          var == IF nan \/ cov.den = 0 THEN [num |-> 0, den |-> 0]
                 ELSE [num |-> Quad(w.num, cov.num),
                       den |-> w.den * w.den * cov.den]
      IN [ err |-> "none", return |-> ret, volatility_sq |-> var,
           sharpe |-> Sharpe(ret, var, rf) ]

\* a > b for two Sharpe ratios over the same statistics (IEEE: FALSE when
\* either is NaN).  A finite ratio is proportional to num / sqrt(var).
SharpeGT(a, b) ==
    IF a.kind = "nan" \/ b.kind = "nan" THEN FALSE
    ELSE IF a.kind = "inf" THEN b.kind # "inf"
    ELSE IF b.kind = "-inf" THEN a.kind # "-inf"
    ELSE IF a.kind = "-inf" \/ b.kind = "inf" THEN FALSE
    ELSE IF a.num >= 0 /\ b.num < 0 THEN TRUE
    ELSE IF a.num < 0 /\ b.num >= 0 THEN FALSE
    ELSE IF a.num >= 0 THEN FracLess(b.num * b.num, b.var, a.num * a.num, a.var)
    ELSE FracLess(a.num * a.num, a.var, b.num * b.num, b.var)

\* a < b for two squared volatilities over the same statistics and the same
\* weights.den (FALSE when either is NaN).
VolLess(a, b) == a.den # 0 /\ b.den # 0 /\ a.num < b.num

\* self.negative_sharpe(x) < self.negative_sharpe(y), and the same for
\* self.portfolio_volatility: the order the solver minimises in.
ObjLess(obj, sx, sy) ==
    IF obj = "negative_sharpe" THEN SharpeGT(sx.sharpe, sy.sharpe)
    ELSE VolLess(sx.volatility_sq, sy.volatility_sq)


\* ------------------------------------------------ scipy.optimize.minimize
\* Weights are searched on the grid of multiples of 1 / GridDen(n).
GridDen(n) == GridRes * n

\* A start point of all ones instead of 1/num_assets each.
init_guess_ones(n) == Weights([i \in 1..n |-> GridRes * n], GridRes * n)

\* init_guess = np.array([1/num_assets] * num_assets)
init_guess(n) == Weights([i \in 1..n |-> GridRes], GridDen(n))

\* equal_weights = np.array([1/num_assets] * num_assets)
equal_weights(n) == Weights([i \in 1..n |-> GridRes], GridDen(n))

\* The grid points one step from x that keep the constraint sum(x) = 1 and the
\* bounds 0 <= x_i <= 1: one grid unit moved from asset i to asset j.
Neighbours(x) ==
    { Weights([k \in DOMAIN x.num |->
                  IF k = i THEN x.num[k] - 1
                  ELSE IF k = j THEN x.num[k] + 1 ELSE x.num[k]], x.den)
        : <<i, j>> \in { p \in (DOMAIN x.num) \X (DOMAIN x.num) :
                           p[1] # p[2] /\ x.num[p[1]] > 0 /\ x.num[p[2]] < x.den } }

\* A converged run: steepest descent on the grid from x, to a point no
\* neighbour improves on.
RECURSIVE Descend(_, _, _, _, _)
Descend(obj, x, mean, cov, rf) ==
    LET here  == portfolio_stats(x, mean, cov, rf)
        f(y)  == portfolio_stats(y, mean, cov, rf)
        nbrs  == Neighbours(x)
        lower == { y \in nbrs : ObjLess(obj, f(y), here) }
    IN IF lower = {} THEN x
       ELSE Descend(obj,
                    CHOOSE y \in lower : \A z \in lower : ~ObjLess(obj, f(z), f(y)),
                    mean, cov, rf)

\* The iterates a run that did not converge may have stopped at: the origin
\* (violating sum(x) = 1) and the first vertex (all in the first asset).
FailIterates(n) ==
    { Weights([i \in 1..n |-> 0], GridDen(n)),
      Weights([i \in 1..n |-> IF i = 1 THEN GridDen(n) ELSE 0], GridDen(n)) }

\* What decides a run of the solver besides its arguments: exit status 0
\* (converged) or 9 (iteration limit reached, with the last iterate).
Fates(n) ==
    { [status |-> 0, x |-> Weights([i \in 1..n |-> 0], GridDen(n))] }
      \cup { [status |-> 9, x |-> it] : it \in FailIterates(n) }

\* minimize(fun, init_guess, method='SLSQP', bounds, constraints): the
\* OptimizeResult, with the start point it was given.
minimize(obj, x0, fate, mean, cov, rf) ==
    [ x       |-> IF fate.status = 0 THEN Descend(obj, x0, mean, cov, rf)
                  ELSE fate.x,
      success |-> fate.status = 0,
      status  |-> fate.status,
      x0      |-> x0 ]

\* --------------------------------------------------------------- optimize
\* dict(zip(self.symbols, x)): the keys in first-occurrence order, each with
\* the value of its last occurrence.
ZipDict(syms, x) ==
    LET first == { i \in DOMAIN syms : \A j \in 1..(i - 1) : syms[j] # syms[i] }
        order == [k \in 1..Cardinality(first) |->
                    CHOOSE i \in first : Cardinality({j \in first : j < i}) = k - 1]
        last(s) == CHOOSE i \in DOMAIN syms :
                      syms[i] = s /\ \A j \in DOMAIN syms : syms[j] = s => j <= i
    IN [k \in DOMAIN order |->
          [symbol |-> syms[order[k]], num |-> x.num[last(syms[order[k]])],
           den |-> x.den]]

\* One entry of the results dictionary.
Entry(syms, x, st) ==
    [ weights |-> ZipDict(syms, x), return |-> st.return,
      volatility |-> st.volatility_sq, sharpe |-> st.sharpe ]

\* The results dictionary with min_volatility's statistics taken from the
\* max-Sharpe weights.
ResultsCrossed(syms, xs, xv, xe, mean, cov, rf) ==
    [ max_sharpe     |-> Entry(syms, xs, portfolio_stats(xs, mean, cov, rf)),
      min_volatility |-> Entry(syms, xv, portfolio_stats(xs, mean, cov, rf)),
      equal_weight   |-> Entry(syms, xe, portfolio_stats(xe, mean, cov, rf)) ]

\* The results dictionary built from the two solver results and the equal
\* weights.
Results(syms, xs, xv, xe, mean, cov, rf) ==
    [ max_sharpe     |-> Entry(syms, xs, portfolio_stats(xs, mean, cov, rf)),
      min_volatility |-> Entry(syms, xv, portfolio_stats(xv, mean, cov, rf)),
      equal_weight   |-> Entry(syms, xe, portfolio_stats(xe, mean, cov, rf)) ]

\* optimize after its lazy fetch: the exception it ends with, the two
\* OptimizeResults and the dictionary it returns.  The first evaluation of the
\* objective raises when the statistics have another length than the symbols.
optimize(syms, fate, mean, cov, rf) ==
    LET n  == Len(syms)
        x0 == init_guess(n)
    IN IF portfolio_stats(x0, mean, cov, rf).err # "none"
       THEN [raised |-> "ValueError", out |-> None, results |-> None]
       ELSE
         LET opt_sharpe == minimize("negative_sharpe", x0,
                                    fate["negative_sharpe"], mean, cov, rf)
             opt_var    == minimize("portfolio_volatility", x0,
                                    fate["portfolio_volatility"], mean, cov, rf)
         IN [ raised  |-> "none",
              out     |-> [negative_sharpe |-> opt_sharpe,
                           portfolio_volatility |-> opt_var],
              results |-> Results(syms, opt_sharpe.x, opt_var.x, equal_weights(n),
                                  mean, cov, rf) ]


\* ------------------------------------------------- plot_efficient_frontier
\* np.random.random(n): n floats in [0, 1), here the multiples j / DrawRes.
Draws(n) == [1..n -> 0..(DrawRes - 1)]

\* The draws used as they are, the division by their sum left out.
NormalizeSkipped(draws) == Weights(draws, DrawRes)

\* weights /= np.sum(weights): numpy's float division, 0 / 0 is NaN.
Normalize(draws) == Weights(draws, SeqSum(draws))

\* ----------------------------------------------------------------- inputs
Prefix(n) == SubSeq(Universe, 1, n)

\* The symbol lists of n assets: in alphabetical order, in reverse order, and
\* with the first symbol repeated in the last place.
SymbolListsOf(n) ==
    { Prefix(n), [i \in 1..n |-> Universe[n + 1 - i]],
      [i \in 1..n |-> IF i = n THEN Universe[1] ELSE Universe[i]] }

SymbolLists ==
    UNION { SymbolListsOf(n) : n \in 1..(IF MaxAssets < Len(Universe)
                                         THEN MaxAssets ELSE Len(Universe)) }

\* risk_free_rate, in units of 2%: 0.0 and the default 0.02.
RiskFreeRates == {0, 1}

\* ---------------------------------------------------------------- actions
\* __init__
Init ==
    /\ symbols \in SymbolLists
    /\ risk_free_rate \in RiskFreeRates
    /\ returns = None
    /\ mean_returns = None
    /\ cov_matrix = None
    /\ solverFate \in [Objectives -> Fates(Len(symbols))]
    /\ solverOut = None
    /\ results = None
    /\ prevResults = None
    /\ raised = "none"
    /\ lastStats = None
    /\ via = "none"
    /\ pc = "idle"
    /\ num_portfolios = 0
    /\ sampled = 0
    /\ sampleDraws = None
    /\ sampleW = None
    /\ sampleStats = None
    /\ fetchCount = 0
    /\ calls = 0

\* The guard left out: every call fetches.
NeedsFetchAlways == TRUE

\* if self.returns is None:
NeedsFetch == returns = None

\* The statistics as they stand, when no fetch is needed.
Cached ==
    [returns |-> returns, mean_returns |-> mean_returns,
     cov_matrix |-> cov_matrix]

\* if self.returns is None: self.fetch_data() -- the statistics the rest of
\* the call may work on: those fetch_data derives from what the download
\* returns (the market is an input), or the cached ones.
LazyStats ==
    IF NeedsFetch
    THEN { fetch_data(Download(symbols, market, nRows))
             : market \in Markets, nRows \in 0..MaxRows }
    ELSE { Cached }

\* fetch_data ran once more if the call needed it.
CountFetch == fetchCount' = IF NeedsFetch THEN fetchCount + 1 ELSE fetchCount

\* The body of optimize on the statistics st, as a state change.
OptimizeBody(st) ==
    LET r == optimize(symbols, solverFate, st.mean_returns, st.cov_matrix,
                      risk_free_rate)
    IN /\ returns' = st.returns
       /\ mean_returns' = st.mean_returns
       /\ cov_matrix' = st.cov_matrix
       /\ raised' = r.raised
       /\ solverOut' = r.out
       /\ results' = r.results
       /\ prevResults' = IF results # None THEN results ELSE prevResults

\* optimizer.optimize()
Optimize ==
    /\ pc = "idle"
    /\ calls < MaxCalls
    /\ \E st \in LazyStats : OptimizeBody(st)
    /\ CountFetch
    /\ via' = "optimize"
    /\ calls' = calls + 1
    /\ UNCHANGED <<symbols, risk_free_rate, solverFate, lastStats, pc,
                   num_portfolios, sampled, sampleDraws, sampleW, sampleStats>>

\* The statistics stored by the lazy fetch of plot_efficient_frontier.
StoreStats(st) ==
    /\ returns' = st.returns
    /\ mean_returns' = st.mean_returns
    /\ cov_matrix' = st.cov_matrix

\* optimizer.plot_efficient_frontier(count), up to the sampling loop.
PlotBegin ==
    /\ pc = "idle"
    /\ calls < MaxCalls
    /\ \E st \in LazyStats : StoreStats(st)
    /\ CountFetch
    /\ \E count \in 1..MaxPortfolios : num_portfolios' = count
    /\ sampled' = 0
    /\ pc' = "sampling"
    /\ raised' = "none"
    /\ calls' = calls + 1
    /\ UNCHANGED <<symbols, risk_free_rate, solverFate, solverOut, results,
                   prevResults, lastStats, via, sampleDraws, sampleW,
                   sampleStats>>

\* One pass of the loop body: weights = np.random.random(n); weights /=
\* np.sum(weights); ret, vol, sharpe = self.portfolio_stats(weights).
SampleOnce(draws) ==
    LET w == Normalize(draws)
    IN [ draws |-> draws, weights |-> w,
         stats |-> portfolio_stats(w, mean_returns, cov_matrix, risk_free_rate) ]

\* One iteration of the sampling loop.  The weights and the three lists are
\* locals that only feed the plot; an exception of portfolio_stats ends the
\* call.
PlotSample ==
    /\ pc = "sampling"
    /\ sampled < num_portfolios
    /\ \E draws \in Draws(Len(symbols)) :
         IF SampleOnce(draws).stats.err # "none"
         THEN /\ raised' = SampleOnce(draws).stats.err
              /\ pc' = "idle"
              /\ sampled' = 0
              /\ num_portfolios' = 0
         ELSE /\ sampled' = sampled + 1
              /\ UNCHANGED <<raised, pc, num_portfolios>>
    /\ UNCHANGED <<symbols, risk_free_rate, returns, mean_returns, cov_matrix,
                   solverFate, solverOut, results, prevResults, lastStats, via,
                   sampleDraws, sampleW, sampleStats, fetchCount, calls>>

\* The rest of plot_efficient_frontier: results = self.optimize(), then the
\* plot of the samples and of the three portfolios.
PlotFinish ==
    /\ pc = "sampling"
    /\ sampled = num_portfolios
    /\ \E st \in LazyStats : OptimizeBody(st)
    /\ CountFetch
    /\ via' = "plot"
    /\ pc' = "idle"
    /\ sampled' = 0
    /\ num_portfolios' = 0
    /\ UNCHANGED <<symbols, risk_free_rate, solverFate, lastStats,
                   sampleDraws, sampleW, sampleStats, calls>>

Next == Optimize \/ PlotBegin \/ PlotSample \/ PlotFinish

Spec == Init /\ [][Next]_vars

\* ------------------------------------------- the pure functions, directly
\* An instance whose statistics fetch_data has derived, for each symbol
\* list, rate, market and number of rows.
InitFetched ==
    /\ symbols \in SymbolLists
    /\ risk_free_rate \in RiskFreeRates
    /\ \E market \in Markets, nRows \in 0..MaxRows :
         LET st == fetch_data(Download(symbols, market, nRows)) IN
         /\ returns = st.returns
         /\ mean_returns = st.mean_returns
         /\ cov_matrix = st.cov_matrix
    /\ solverFate = [o \in Objectives |->
                        [status |-> 0,
                         x |-> Weights([i \in 1..Len(symbols) |-> 0],
                                       GridDen(Len(symbols)))]]
    /\ solverOut = None
    /\ results = None
    /\ prevResults = None
    /\ raised = "none"
    /\ lastStats = None
    /\ via = "none"
    /\ pc = "idle"
    /\ num_portfolios = 0
    /\ sampled = 0
    /\ sampleDraws = None
    /\ sampleW = None
    /\ sampleStats = None
    /\ fetchCount = 1
    /\ calls = 1

\* The loop body of plot_efficient_frontier applied once, its locals kept in
\* view.
SampleWeights ==
    /\ \E draws \in Draws(Len(symbols)) :
         LET s == SampleOnce(draws) IN
         IF s.stats.err # "none"
         THEN /\ raised' = s.stats.err
              /\ UNCHANGED <<sampleDraws, sampleW, sampleStats>>
         ELSE /\ raised' = "none"
              /\ sampleDraws' = [values |-> s.draws]
              /\ sampleW' = s.weights
              /\ sampleStats' = s.stats
    /\ UNCHANGED <<symbols, risk_free_rate, returns, mean_returns, cov_matrix,
                   solverFate, solverOut, results, prevResults, lastStats, via,
                   pc, num_portfolios, sampled, fetchCount, calls>>

\* The weight vectors a caller hands to portfolio_stats directly (they are
\* not validated): the unit vectors and the equal weights.
DirectWeights(n) ==
    { Weights([i \in 1..n |-> IF i = k THEN GridDen(n) ELSE 0], GridDen(n))
        : k \in 1..n } \cup { equal_weights(n) }

\* optimizer.portfolio_stats(weights)
PortfolioStatsCall ==
    /\ \E w \in DirectWeights(Len(symbols)) :
         LET st == portfolio_stats(w, mean_returns, cov_matrix, risk_free_rate)
         IN /\ raised' = st.err
            /\ lastStats' = IF st.err = "none"
                            THEN [weights |-> w, stats |-> st] ELSE None
    /\ UNCHANGED <<symbols, risk_free_rate, returns, mean_returns, cov_matrix,
                   solverFate, solverOut, results, prevResults, via, pc,
                   num_portfolios, sampled, sampleDraws, sampleW, sampleStats,
                   fetchCount, calls>>

NextPure == SampleWeights \/ PortfolioStatsCall

SpecPure == InitFetched /\ [][NextPure]_vars


\* ------------------------------------------------------------- the claims
Strategies == {"max_sharpe", "min_volatility", "equal_weight"}

\* The weight vector a results entry reports, in the order of its labels.
VectorOf(entry) ==
    Weights([i \in DOMAIN entry.weights |-> entry.weights[i].num],
            entry.weights[1].den)

\* The weights sum to 1 and each lies in [0, 1].
Feasible(w) ==
    /\ w.den > 0
    /\ SeqSum(w.num) = w.den
    /\ \A i \in DOMAIN w.num : 0 <= w.num[i] /\ w.num[i] <= w.den

\* C1: whenever optimize returns, the max_sharpe and min_volatility weights
\* sum to 1 and lie in [0, 1], whatever iterate and status the solver ended
\* with.  (Stated for statistics of two or more periods, so that a violation
\* does not rest on C6.)
C1_SolverWeightsFeasible ==
    (results # None /\ Len(returns.rows) >= 2) =>
        \A k \in {"max_sharpe", "min_volatility"} : Feasible(VectorOf(results[k]))

\* C2: a solver invocation that did not converge makes optimize raise
\* OptimizationFailedError, and its last iterate is not returned as weights.
C2_FailureSurfaced ==
    \A obj \in Objectives :
        (solverOut # None /\ ~solverOut[obj].success) =>
            (raised = "OptimizationFailedError" /\ results = None)

\* C3: over any sequence of optimize and plot_efficient_frontier calls the
\* statistics are derived by the first call, once, and no later step derives
\* or changes them.
C3_StatsDerivedOnce ==
    /\ [](fetchCount <= 1)
    /\ []((calls = 0) <=> (returns = None))
    /\ []((returns = None) <=> (fetchCount = 0))
    /\ [][returns # None =>
            UNCHANGED <<returns, mean_returns, cov_matrix, fetchCount>>]_vars

\* A second call has ended, on statistics the first call derived.
C3_Witness ==
    /\ calls = 2
    /\ pc = "idle"
    /\ fetchCount = 1
    /\ prevResults # None
    /\ results # None

\* Both minimisations of the latest optimize converged.
BothConverged ==
    solverOut # None /\ \A obj \in Objectives : solverOut[obj].success

\* C4: in the result of optimize every weight is labelled with the symbol of
\* the statistics column it was applied to.  (Stated for statistics of two or
\* more periods and converged minimisations, so that a violation does not
\* rest on C2 or C6.)
C4_LabelsFollowStatistics ==
    (results # None /\ Len(returns.rows) >= 2 /\ BothConverged) =>
        \A k \in Strategies : \A i \in DOMAIN results[k].weights :
            results[k].weights[i].symbol = returns.columns[i]

\* C5: portfolio_stats never returns normally with a volatility of exactly
\* zero (it raises DegenerateVolatilityError instead of an infinite or NaN
\* Sharpe ratio).
C5_ZeroVolatilityRaises ==
    lastStats # None =>
        ~(lastStats.stats.volatility_sq.den # 0
            /\ lastStats.stats.volatility_sq.num = 0)

\* C6: statistics are never stored, nor optimised on, when fewer than 2
\* return periods remain after the incomplete rows are dropped.
C6_InsufficientDataRejected ==
    /\ returns # None => Len(returns.rows) >= 2
    /\ results # None => Len(returns.rows) >= 2

C8_EntriesOwnStatistics ==
    results # None =>
        /\ DOMAIN results = Strategies
        /\ VectorOf(results["max_sharpe"]) = solverOut["negative_sharpe"].x
        /\ VectorOf(results["min_volatility"])
              = solverOut["portfolio_volatility"].x
        /\ \A i \in DOMAIN symbols :
              results["equal_weight"].weights[i].num * Len(symbols)
                 = results["equal_weight"].weights[i].den
        /\ \A k \in Strategies :
              LET st == portfolio_stats(VectorOf(results[k]), mean_returns,
                                        cov_matrix, risk_free_rate)
              IN /\ results[k].return = st.return
                 /\ results[k].volatility = st.volatility_sq
                 /\ results[k].sharpe = st.sharpe

\* optimize returned three strategies with three different weight vectors
\* and three different statistics.
C8_Witness ==
    /\ results # None
    /\ VectorOf(results["max_sharpe"]) # VectorOf(results["min_volatility"])
    /\ VectorOf(results["max_sharpe"]) # VectorOf(results["equal_weight"])
    /\ VectorOf(results["min_volatility"]) # VectorOf(results["equal_weight"])
    /\ results["max_sharpe"].sharpe # results["min_volatility"].sharpe
    /\ results["max_sharpe"].volatility # results["min_volatility"].volatility

\* The determinant of a square matrix, by expansion along the first row.
RECURSIVE Det(_)
Det(m) ==
    IF Len(m) = 1 THEN m[1][1]
    ELSE SeqSum([c \in 1..Len(m) |->
            (IF c % 2 = 1 THEN 1 ELSE -1) * m[1][c]
              * Det([i \in 1..(Len(m) - 1) |->
                       [j \in 1..(Len(m) - 1) |->
                          m[i + 1][IF j < c THEN j ELSE j + 1]]])])

\* The covariance matrix is finite and positive definite: every leading
\* principal minor is positive (the minors are taken of the matrix divided by
\* the annualisation factor).
NonDegenerate(cov) ==
    /\ cov.den > 0
    /\ \A k \in 1..Len(cov.num) :
          Det([i \in 1..k |-> [j \in 1..k |-> cov.num[i][j] \div TradingDays]]) > 0

\* The mean returns are finite and not all equal.
Heterogeneous(mean) ==
    /\ mean.den > 0
    /\ \E i, j \in DOMAIN mean.num : mean.num[i] # mean.num[j]

\* a >= b for two Sharpe ratios over the same statistics.
SharpeGE(a, b) == a.kind # "nan" /\ b.kind # "nan" /\ ~SharpeGT(b, a)

\* C9: on a non-degenerate covariance matrix with heterogeneous mean returns
\* the Sharpe ratio reported for max_sharpe is at least the one reported for
\* equal_weight.
C9_MaxSharpeBeatsEqualWeight ==
    (results # None /\ NonDegenerate(cov_matrix) /\ Heterogeneous(mean_returns))
        => SharpeGE(results["max_sharpe"].sharpe, results["equal_weight"].sharpe)

\* Every entry of x is 1 / n.
Uniform(x) == \A i \in DOMAIN x.num : x.num[i] * Len(x.num) = x.den

====
